---- MODULE Spec2Model ----
(***************************************************************************)
(* Real-time session relay and advice trigger of backend/main.py:          *)
(* ConnectionManager (the session registry), process_audio (the relay of   *)
(* one inbound audio connection and its on_message callback),              *)
(* generate_advice (the throttled advice pipeline) and the two websocket   *)
(* endpoints ws_client and ws_meeting_baas.                                *)
(*                                                                         *)
(* The program runs on one asyncio event loop: code between two awaits is  *)
(* one atomic step, and every await is a point where any other coroutine   *)
(* may run.  Each action below is the code from one await to the next.     *)
(***************************************************************************)
EXTENDS Integers, Sequences, FiniteSets, TLC

\* ---------------------------------------------------------------- bounds
NumConns == 2        \* websocket connections that may be opened
MaxUtter == 2        \* utterance events the bridges may deliver in all
MaxFrames == 1       \* binary frames the relays may receive in all
MaxRelayFrames == 3  \* binary frames of one relay in the frame scenario (SpecFrames)
MaxAppends == 20     \* utterances of the throttle scenario (SpecAdvice)
MaxPending == 2      \* advice tasks alive when an utterance is accepted
MaxLog == 2          \* notifications remembered per connection (the latest)
MaxLimit == 3        \* largest limit get_recent_context is asked for

\* ------------------------------------------------------- program constants
AdviceThreshold == 10    \* generate_advice: current_count - last_count < 10
ContextLimit == 20       \* get_recent_context(session_id, limit = 20)

None == "none"
Conns == 1..NumConns
Keys == {"s1", "s2"}
Profiles == {"p1"}
Tokens == {"valid", "invalid"}
Texts == {"", "a"}
\* result.channel.alternatives[0].words, each word reduced to its speaker
Words == {<<>>, <<1, 0>>}

\* ------------------------------------------------------------- variables
VARIABLES
    manager,    \* the ConnectionManager: its four dictionaries
    pc,         \* per connection: the await its endpoint coroutine is parked at
    kind,       \* per connection: "mic" | "viewer" | "bot" (None before it opens)
    key,        \* per connection: the session_id of its URL
    calls,      \* per connection: bridge / registry calls made for it, in order
    recv,       \* per connection: binary frames received by the frame loop
    forwarded,  \* per connection: frames handed to dg_connection.send, in order
    utter,      \* utterance events the bridges have delivered so far
    handler,    \* per connection: the on_message call in flight (None if none)
    tasks,      \* advice tasks created by asyncio.create_task and still alive
    triggers,   \* per session key: advice checks that passed the throttle
    lagged,     \* per session key: an append happened before an earlier check ran
    sent,       \* per connection: the latest notifications delivered to it, in order
    last        \* the operation executed by the last step, with the state before it

vars == <<manager, pc, kind, key, calls, recv, forwarded, utter, handler,
          tasks, triggers, lagged, sent, last>>

\* ------------------------------------------------------------ dictionaries
Has(d, k) == k \in DOMAIN d
Put(d, k, v) == [x \in DOMAIN d \cup {k} |-> IF x = k THEN v ELSE d[x]]
Del(d, k) == [x \in DOMAIN d \ {k} |-> d[x]]
EmptyDict == [x \in {} |-> None]

\* list.remove(x): removes the first occurrence
RECURSIVE Remove(_, _)
Remove(l, x) ==
    IF l = <<>> THEN <<>>
    ELSE IF Head(l) = x THEN Tail(l)
    ELSE <<Head(l)>> \o Remove(Tail(l), x)

InList(l, x) == \E i \in 1..Len(l) : l[i] = x
Elems(l) == {l[i] : i \in 1..Len(l)}
RECURSIVE Sum(_, _)
Sum(f, S) == IF S = {} THEN 0 ELSE LET x == CHOOSE y \in S : TRUE
                                   IN f[x] + Sum(f, S \ {x})

\* --------------------------------------------------- ConnectionManager
ConnectionManager ==
    [active_connections |-> EmptyDict,
     transcripts |-> EmptyDict,
     session_metadata |-> EmptyDict,
     last_advice_transcript_count |-> EmptyDict]

\* connect that keeps a buffer and a watermark already held for the key
connect_keeps_buffer(m, websocket, session_id) ==
    LET m1 == IF ~Has(m.active_connections, session_id)
              THEN [m EXCEPT
                      !.active_connections = Put(@, session_id, <<>>),
                      !.transcripts =
                          IF Has(@, session_id) THEN @ ELSE Put(@, session_id, <<>>),
                      !.last_advice_transcript_count =
                          IF Has(@, session_id) THEN @ ELSE Put(@, session_id, 0)]
              ELSE m
    IN [m1 EXCEPT !.active_connections[session_id] = Append(@, websocket)]

\* connect, after websocket.accept() has returned
connect(m, websocket, session_id) ==
    LET m1 == IF ~Has(m.active_connections, session_id)
              THEN [m EXCEPT
                      !.active_connections = Put(@, session_id, <<>>),
                      !.transcripts = Put(@, session_id, <<>>),
                      !.last_advice_transcript_count = Put(@, session_id, 0)]
              ELSE m
    IN [m1 EXCEPT !.active_connections[session_id] = Append(@, websocket)]

set_session_info(m, session_id, subordinate_id) ==
    IF subordinate_id # None
    THEN [m EXCEPT !.session_metadata =
                      Put(@, session_id, [subordinate_id |-> subordinate_id])]
    ELSE m

get_subordinate_id(m, session_id) ==
    IF Has(m.session_metadata, session_id)
    THEN m.session_metadata[session_id].subordinate_id
    ELSE None

get_transcript_count(m, session_id) ==
    IF Has(m.transcripts, session_id) THEN Len(m.transcripts[session_id]) ELSE 0

get_last_advice_count(m, session_id) ==
    IF Has(m.last_advice_transcript_count, session_id)
    THEN m.last_advice_transcript_count[session_id]
    ELSE 0

\* the watermark update left out
update_last_advice_count_dropped(m, session_id, count) == m

update_last_advice_count(m, session_id, count) ==
    [m EXCEPT !.last_advice_transcript_count = Put(@, session_id, count)]

\* disconnect whose cleanup forgets session_metadata
disconnect_keeps_metadata(m, websocket, session_id) ==
    IF Has(m.active_connections, session_id)
    THEN LET l == IF InList(m.active_connections[session_id], websocket)
                  THEN Remove(m.active_connections[session_id], websocket)
                  ELSE m.active_connections[session_id]
         IN IF l = <<>>
            THEN [m EXCEPT
                    !.active_connections = Del(@, session_id),
                    !.transcripts = Del(@, session_id),
                    !.last_advice_transcript_count = Del(@, session_id)]
            ELSE [m EXCEPT !.active_connections[session_id] = l]
    ELSE m

\* disconnect whose cleanup forgets last_advice_transcript_count
disconnect_keeps_watermark(m, websocket, session_id) ==
    IF Has(m.active_connections, session_id)
    THEN LET l == IF InList(m.active_connections[session_id], websocket)
                  THEN Remove(m.active_connections[session_id], websocket)
                  ELSE m.active_connections[session_id]
         IN IF l = <<>>
            THEN [m EXCEPT
                    !.active_connections = Del(@, session_id),
                    !.transcripts = Del(@, session_id),
                    !.session_metadata = Del(@, session_id)]
            ELSE [m EXCEPT !.active_connections[session_id] = l]
    ELSE m

\* disconnect that cleans a key up when the websocket is not in its list
disconnect_cleans_absent(m, websocket, session_id) ==
    IF Has(m.active_connections, session_id)
    THEN LET l == IF InList(m.active_connections[session_id], websocket)
                  THEN Remove(m.active_connections[session_id], websocket)
                  ELSE <<>>
         IN IF l = <<>>
            THEN [active_connections |-> Del(m.active_connections, session_id),
                  transcripts |-> Del(m.transcripts, session_id),
                  session_metadata |-> Del(m.session_metadata, session_id),
                  last_advice_transcript_count |->
                      Del(m.last_advice_transcript_count, session_id)]
            ELSE [m EXCEPT !.active_connections[session_id] = l]
    ELSE m

disconnect(m, websocket, session_id) ==
    IF Has(m.active_connections, session_id)
    THEN LET l == IF InList(m.active_connections[session_id], websocket)
                  THEN Remove(m.active_connections[session_id], websocket)
                  ELSE m.active_connections[session_id]
         IN IF l = <<>>
            THEN [active_connections |-> Del(m.active_connections, session_id),
                  transcripts |-> Del(m.transcripts, session_id),
                  session_metadata |-> Del(m.session_metadata, session_id),
                  last_advice_transcript_count |->
                      Del(m.last_advice_transcript_count, session_id)]
            ELSE [m EXCEPT !.active_connections[session_id] = l]
    ELSE m

\* add_transcript that inserts the entry at the front of the buffer
add_transcript_front(m, session_id, text, speaker) ==
    LET m1 == IF ~Has(m.transcripts, session_id)
              THEN [m EXCEPT !.transcripts = Put(@, session_id, <<>>)]
              ELSE m
    IN [m1 EXCEPT !.transcripts[session_id] =
                     <<[speaker |-> speaker, text |-> text]>> \o @]

add_transcript(m, session_id, text, speaker) ==
    LET m1 == IF ~Has(m.transcripts, session_id)
              THEN [m EXCEPT !.transcripts = Put(@, session_id, <<>>)]
              ELSE m
    IN [m1 EXCEPT !.transcripts[session_id] =
                     Append(@, [speaker |-> speaker, text |-> text])]

\* transcripts.get(session_id, [])[-limit:] ; Python's [-0:] is the whole list
get_recent_context(m, session_id, limit) ==
    LET l == IF Has(m.transcripts, session_id) THEN m.transcripts[session_id] ELSE <<>>
        from == IF limit = 0 \/ limit >= Len(l) THEN 1 ELSE Len(l) - limit + 1
    IN SubSeq(l, from, Len(l))


\* ------------------------------------------------------------ broadcast
\* One call of ConnectionManager.broadcast in flight.  The for loop walks the
\* list object by position (idx = positions already taken); connect appends to
\* that object and disconnect removes from it while the loop is parked in
\* send_json.  det: the list object was emptied and dropped from the dictionary,
\* so the loop sees an empty list whatever is registered under the key later.
\* list0, stayed, tried and raised record what the call saw and did: the
\* observers at the call, those of them still registered, the connections
\* send_json was called on, and those whose send_json raised.
NoMsg == [type |-> "none", text |-> "", speaker |-> 0, n |-> 0]

NoBc ==
    [s |-> None, msg |-> NoMsg, idx |-> 0, cur |-> 0, det |-> FALSE,
     list0 |-> <<>>, stayed |-> {}, tried |-> {}, raised |-> {}]

\* broadcast that turns to connection 1 when the key has no observer list
broadcast_fallback(m, message, session_id) ==
    IF Has(m.active_connections, session_id)
       /\ m.active_connections[session_id] # <<>>
    THEN LET l == m.active_connections[session_id]
         IN [s |-> session_id, msg |-> message, idx |-> 1, cur |-> l[1],
             det |-> FALSE, list0 |-> l, stayed |-> Elems(l), tried |-> {l[1]},
             raised |-> {}]
    ELSE [NoBc EXCEPT !.s = session_id, !.msg = message, !.idx = 1, !.cur = 1,
                      !.tried = {1}]

\* broadcast up to its first await
broadcast(m, message, session_id) ==
    IF Has(m.active_connections, session_id)
       /\ m.active_connections[session_id] # <<>>
    THEN LET l == m.active_connections[session_id]
         IN [s |-> session_id, msg |-> message, idx |-> 1, cur |-> l[1],
             det |-> FALSE, list0 |-> l, stayed |-> Elems(l), tried |-> {l[1]},
             raised |-> {}]
    ELSE [NoBc EXCEPT !.s = session_id, !.msg = message]

\* broadcast from the return (ok) or the exception (~ok) of one send_json to
\* the next await, or to the end of the loop (cur = 0)
broadcast_next(m, b, ok) ==
    LET r == IF ok THEN b.raised ELSE b.raised \cup {b.cur}
        l == IF b.det \/ ~Has(m.active_connections, b.s)
             THEN <<>> ELSE m.active_connections[b.s]
    IN IF b.idx < Len(l)
       THEN [b EXCEPT !.idx = @ + 1, !.cur = l[b.idx + 1],
                      !.tried = @ \cup {l[b.idx + 1]}, !.raised = r]
       ELSE [b EXCEPT !.cur = 0, !.raised = r]

\* what a disconnect of c from key s does to a broadcast parked in a send
Detach(b, s, c, dropped) ==
    IF b.cur # 0 /\ b.s = s
    THEN [b EXCEPT !.stayed = @ \ {c}, !.det = @ \/ dropped]
    ELSE b

\* ------------------------------------------------------------- messages
\* the log of a connection after one more delivery: its latest MaxLog entries
Deliver(log, msg) ==
    LET l == Append(log, msg)
    IN IF Len(l) > MaxLog THEN SubSeq(l, Len(l) - MaxLog + 1, Len(l)) ELSE l

TranscriptMsg(text, speaker, n) ==
    [type |-> "transcript", text |-> text, speaker |-> speaker, n |-> n]
AdviceMsg(n) ==
    [type |-> "advice", text |-> "advice", speaker |-> 0, n |-> n]

\* -------------------------------------------------------- the durable store
\* The store is outside the program: a call of db.py made by a step is recorded
\* with the step, returned when the row was written and not when it raised.
NoCall == [call |-> "none", returned |-> FALSE]
create_session(created) == [call |-> "create_session", returned |-> created]
save_transcript(saved) == [call |-> "save_transcript", returned |-> saved]
save_advice(saved) == [call |-> "save_advice", returned |-> saved]
get_subordinate(fetched) == [call |-> "get_subordinate", returned |-> fetched]

\* ---------------------------------------------------------------- state
Snap(m, s) ==
    [has_ac |-> Has(m.active_connections, s),
     ac |-> IF Has(m.active_connections, s) THEN m.active_connections[s] ELSE <<>>,
     has_tr |-> Has(m.transcripts, s),
     tr |-> IF Has(m.transcripts, s) THEN m.transcripts[s] ELSE <<>>,
     meta |-> get_subordinate_id(m, s),
     has_wm |-> Has(m.last_advice_transcript_count, s),
     wm |-> get_last_advice_count(m, s)]

\* the event of an operation that has none
NoEvent == [sentence |-> "", words |-> <<>>]

NoOp ==
    [op |-> "step", c |-> 0, s |-> None, pre |-> Snap(ConnectionManager, None),
     bc |-> NoBc, trig |-> FALSE, event |-> NoEvent, store |-> NoCall,
     token |-> None]

\* the operations whose effect a property below looks at
Observed ==
    {"join", "leave", "reject", "start_failed", "text", "disconnect", "utterance",
     "empty_utterance", "broadcast_done", "advice_check", "advice_done",
     "advice_failed"}

Op(name, c, s) ==
    IF name \notin Observed THEN NoOp
    ELSE [op |-> name, c |-> c, s |-> s, pre |-> Snap(manager, s), bc |-> NoBc,
          trig |-> FALSE, event |-> NoEvent, store |-> NoCall, token |-> None]

Init ==
    /\ manager = ConnectionManager
    /\ pc = [c \in Conns |-> "idle"]
    /\ kind = [c \in Conns |-> None]
    /\ key = [c \in Conns |-> None]
    /\ calls = [c \in Conns |-> <<>>]
    /\ recv = [c \in Conns |-> 0]
    /\ forwarded = [c \in Conns |-> <<>>]
    /\ utter = 0
    /\ handler = [c \in Conns |-> NoBc]
    /\ tasks = EmptyDict
    /\ triggers = [s \in Keys |-> 0]
    /\ lagged = [s \in Keys |-> FALSE]
    /\ sent = [c \in Conns |-> <<>>]
    /\ last = NoOp

\* advice checks of key s that are due: on_message calls past their append
\* whose task is not created yet, and created tasks that have not run
Unchecked(s) ==
    Cardinality({c \in Conns : handler[c].cur # 0 /\ handler[c].s = s})
    + Cardinality({t \in DOMAIN tasks : tasks[t].s = s /\ tasks[t].stage = "check"})

\* manager.disconnect(c, key[c]) with what it means for the broadcasts in
\* flight and for the per-period counters
Leave(c) ==
    LET s == key[c]
        m1 == disconnect(manager, c, s)
        dropped == Has(manager.active_connections, s) /\ ~Has(m1.active_connections, s)
    IN /\ manager' = m1
       /\ handler' = [d \in Conns |-> Detach(handler[d], s, c, dropped)]
       /\ tasks' = [t \in DOMAIN tasks |->
                      [tasks[t] EXCEPT !.bc = Detach(@, s, c, dropped)]]
       /\ triggers' = IF dropped THEN [triggers EXCEPT ![s] = 0] ELSE triggers
       /\ lagged' = IF dropped THEN [lagged EXCEPT ![s] = FALSE] ELSE lagged
       /\ calls' = [calls EXCEPT ![c] = Append(@, "leave")]

\* --------------------------------------------------------------- ws_client
\* a verify_user that takes every token
verify_user_any(token) == "user"

\* verify_user: the user of a token the auth service knows, None for any
\* other token and when the lookup raises
verify_user(token) == IF token = "valid" THEN "user" ELSE None

\* verify_user(token) returned None: close(code=4001) and return
ClientReject(c, s, token) ==
    /\ pc[c] = "idle"
    /\ verify_user(token) = None
    /\ pc' = [pc EXCEPT ![c] = "done"]
    /\ kind' = [kind EXCEPT ![c] = "rejected"]
    /\ key' = [key EXCEPT ![c] = s]
    /\ last' = [Op("reject", c, s) EXCEPT !.token = token]
    /\ UNCHANGED <<manager, calls, recv, forwarded, utter, handler, tasks,
                   triggers, lagged, sent>>

\* verify_user succeeded and websocket.accept() returned: manager.connect,
\* set_session_info and, in mic mode, create_session (created: it returned)
ClientConnect(c, s, mode, subordinate_id, created, token) ==
    /\ pc[c] = "idle"
    /\ verify_user(token) # None
    /\ mode = "viewer" => created
    /\ LET first == ~Has(manager.active_connections, s)
       IN /\ manager' = set_session_info(connect(manager, c, s), s, subordinate_id)
          /\ triggers' = IF first THEN [triggers EXCEPT ![s] = 0] ELSE triggers
          /\ lagged' = IF first THEN [lagged EXCEPT ![s] = FALSE] ELSE lagged
    /\ pc' = [pc EXCEPT ![c] = IF mode = "viewer" THEN "viewing"
                                ELSE IF created THEN "sendId" ELSE "closing"]
    /\ kind' = [kind EXCEPT ![c] = mode]
    /\ key' = [key EXCEPT ![c] = s]
    /\ calls' = [calls EXCEPT ![c] = <<"join">>]
    /\ last' = [Op("join", c, s) EXCEPT
                   !.store = IF mode = "mic" THEN create_session(created) ELSE NoCall,
                   !.token = token]
    /\ UNCHANGED <<recv, forwarded, utter, handler, tasks, sent>>

\* websocket.send_json({"type": "db_session_id"}) returned or raised; on return
\* process_audio runs up to await dg_connection.start(options)
SendId(c, ok) ==
    /\ pc[c] = "sendId"
    /\ pc' = [pc EXCEPT ![c] = IF ok THEN "starting" ELSE "closing"]
    /\ calls' = [calls EXCEPT ![c] = IF ok THEN Append(@, "start") ELSE @]
    /\ last' = Op(IF ok THEN "start" ELSE "step", c, key[c])
    /\ UNCHANGED <<manager, kind, key, recv, forwarded, utter, handler, tasks,
                   triggers, lagged, sent>>

\* the viewer loop: receive_text returned, raised WebSocketDisconnect
\* (finally: manager.disconnect) or raised another error (await close())
ViewerReceive(c, what) ==
    /\ pc[c] = "viewing"
    /\ \/ /\ what = "text"
          /\ pc' = pc
          /\ last' = Op("step", c, key[c])
          /\ UNCHANGED <<manager, handler, tasks, triggers, lagged, calls>>
       \/ /\ what = "WebSocketDisconnect"
          /\ pc' = [pc EXCEPT ![c] = "done"]
          /\ last' = Op("leave", c, key[c])
          /\ Leave(c)
       \/ /\ what = "error"
          /\ pc' = [pc EXCEPT ![c] = "closing"]
          /\ last' = Op("step", c, key[c])
          /\ UNCHANGED <<manager, handler, tasks, triggers, lagged, calls>>
    /\ UNCHANGED <<kind, key, recv, forwarded, utter, sent>>

\* except Exception: await websocket.close() returned or raised; finally:
\* manager.disconnect
CloseReturn(c) ==
    /\ pc[c] = "closing"
    /\ pc' = [pc EXCEPT ![c] = "done"]
    /\ last' = Op("leave", c, key[c])
    /\ Leave(c)
    /\ UNCHANGED <<kind, key, recv, forwarded, utter, sent>>


\* --------------------------------------------------------- ws_meeting_baas
\* websocket.accept() returned and db_session_id is missing: close and return
BotReject(c, s) ==
    /\ pc[c] = "idle"
    /\ pc' = [pc EXCEPT ![c] = "done"]
    /\ kind' = [kind EXCEPT ![c] = "rejected"]
    /\ key' = [key EXCEPT ![c] = s]
    /\ last' = Op("reject", c, s)
    /\ UNCHANGED <<manager, calls, recv, forwarded, utter, handler, tasks,
                   triggers, lagged, sent>>

\* websocket.accept() returned with a db_session_id: get_session (its
\* subordinate_id, None when it has none or get_session raised),
\* set_session_info, then process_audio up to await dg_connection.start(options)
BotOpen(c, s, subordinate_id) ==
    /\ pc[c] = "idle"
    /\ manager' = set_session_info(manager, s, subordinate_id)
    /\ pc' = [pc EXCEPT ![c] = "starting"]
    /\ kind' = [kind EXCEPT ![c] = "bot"]
    /\ key' = [key EXCEPT ![c] = s]
    /\ calls' = [calls EXCEPT ![c] = <<"start">>]
    /\ last' = Op("start", c, s)
    /\ UNCHANGED <<recv, forwarded, utter, handler, tasks, triggers,
                   lagged, sent>>

\* ------------------------------------------------------------ process_audio
\* process_audio has returned to its endpoint: ws_client runs its finally
\* (manager.disconnect), ws_meeting_baas just ends
RelayReturn(c) ==
    IF kind[c] = "mic"
    THEN Leave(c)
    ELSE UNCHANGED <<manager, handler, tasks, triggers, lagged, calls>>

\* dg_connection.start(options) returned True ("ok"), returned False ("false":
\* return) or raised ("raise": except Exception)
StartResult(c, outcome) ==
    /\ pc[c] = "starting"
    /\ \/ /\ outcome = "ok"
          /\ pc' = [pc EXCEPT ![c] = "loop"]
          /\ last' = Op("step", c, key[c])
          /\ UNCHANGED <<manager, handler, tasks, triggers, lagged, calls>>
       \/ /\ outcome \in {"false", "raise"}
          /\ pc' = [pc EXCEPT ![c] = "done"]
          /\ last' = Op("start_failed", c, key[c])
          /\ RelayReturn(c)
    /\ UNCHANGED <<kind, key, recv, forwarded, utter, sent>>

\* a send that puts the frame before the ones the bridge already has
send_front(frames, frame) == <<frame>> \o frames

\* dg_connection.send(message["bytes"]): the bridge's frames after the call
send(frames, frame) == Append(frames, frame)

\* the frame loop: websocket_in.receive() returned a message or raised; a
\* frame is named by its place among the binary frames of its connection
Receive(c, what) ==
    /\ pc[c] = "loop"
    /\ \/ /\ what = "bytes"                 \* a non-empty binary frame
          /\ recv' = [recv EXCEPT ![c] = @ + 1]
          /\ forwarded' = [forwarded EXCEPT ![c] = send(@, recv[c] + 1)]
          /\ pc' = [pc EXCEPT ![c] = "sending"]
          /\ last' = Op("frame", c, key[c])
          /\ calls' = calls
       \/ /\ what = "text"                  \* a text payload, or empty bytes
          /\ last' = Op("text", c, key[c])
          /\ UNCHANGED <<recv, forwarded, pc, calls>>
       \/ /\ what \in {"disconnect", "WebSocketDisconnect", "error"}
          /\ pc' = [pc EXCEPT ![c] = "finishing"]
          /\ calls' = [calls EXCEPT ![c] = Append(@, "finish")]
          /\ last' = Op(what, c, key[c])
          /\ UNCHANGED <<recv, forwarded>>
    /\ UNCHANGED <<manager, kind, key, utter, handler, tasks,
                   triggers, lagged, sent>>

\* dg_connection.send(frame) returned, or raised (finally: finish)
SendResult(c, ok) ==
    /\ pc[c] = "sending"
    /\ pc' = [pc EXCEPT ![c] = IF ok THEN "loop" ELSE "finishing"]
    /\ calls' = [calls EXCEPT ![c] = IF ok THEN @ ELSE Append(@, "finish")]
    /\ last' = Op(IF ok THEN "step" ELSE "send_error", c, key[c])
    /\ UNCHANGED <<manager, kind, key, recv, forwarded, utter, handler, tasks,
                   triggers, lagged, sent>>

\* dg_connection.finish() returned or raised: process_audio returns
FinishReturn(c) ==
    /\ pc[c] = "finishing"
    /\ pc' = [pc EXCEPT ![c] = "done"]
    /\ last' = Op("finished", c, key[c])
    /\ RelayReturn(c)
    /\ UNCHANGED <<kind, key, recv, forwarded, utter, sent>>

\* ---------------------------------------------------------------- on_message
\* an on_message that dispatches no advice check
CreateTask_none(s) == tasks' = tasks

\* asyncio.create_task(generate_advice(session_id, db_session_id))
CreateTask(s) ==
    LET t == CHOOSE i \in 1..(Cardinality(DOMAIN tasks) + 1) : i \notin DOMAIN tasks
    IN tasks' = Put(tasks, t, [s |-> s, stage |-> "check", bc |-> NoBc])

\* the speaker of an utterance: words[0].speaker if words else 0
SpeakerOf(words) == IF words # <<>> THEN words[1] ELSE 0

\* an on_message that takes every utterance, the empty ones too
Discarded_never(sentence) == FALSE

\* if len(sentence) == 0: return
Discarded(sentence) == Len(sentence) = 0

\* The bridge delivers one utterance event: on_message up to its first await
\* (the first send_json of the broadcast), or to its end when nothing is sent
\* (save_transcript returns or raises, then create_task).
\* The bridge awaits each callback before it delivers the next event.
Utterance(c, sentence, words, saved) ==
    LET s == key[c]
        speaker == SpeakerOf(words)
        m1 == add_transcript(manager, s, sentence, speaker)
        b == broadcast(m1, TranscriptMsg(sentence, speaker,
                                         get_transcript_count(m1, s)), s)
        e == [sentence |-> sentence, words |-> words]
    IN /\ pc[c] \in {"loop", "sending"}
       /\ handler[c].cur = 0
       /\ IF Discarded(sentence)
          THEN /\ last' = [Op("empty_utterance", c, s) EXCEPT !.event = e]
               /\ UNCHANGED <<manager, handler, tasks, lagged>>
          ELSE /\ Cardinality(DOMAIN tasks) < MaxPending
               /\ manager' = m1
               /\ lagged' = [lagged EXCEPT ![s] = @ \/ Unchecked(s) > 0]
               /\ IF b.cur = 0
                  THEN /\ handler' = handler
                       /\ CreateTask(s)
                       /\ last' = [Op("utterance", c, s) EXCEPT !.bc = b, !.event = e,
                                       !.store = save_transcript(saved)]
                  ELSE /\ handler' = [handler EXCEPT ![c] = b]
                       /\ last' = [Op("utterance", c, s) EXCEPT !.event = e]
                       /\ saved
                       /\ tasks' = tasks
       /\ UNCHANGED <<pc, kind, key, calls, recv, forwarded, triggers, sent>>

\* send_json of the transcript broadcast returned (ok) or raised: the loop goes
\* to the next observer, or on_message goes on to save_transcript (it may
\* raise, which is printed) and creates the advice task
HandlerSend(c, ok, saved) ==
    LET b == handler[c]
        b1 == broadcast_next(manager, b, ok)
    IN /\ b.cur # 0
       /\ ok => pc[b.cur] # "done"
       /\ sent' = IF ok THEN [sent EXCEPT ![b.cur] = Deliver(@, b.msg)] ELSE sent
       /\ IF b1.cur = 0
          THEN /\ handler' = [handler EXCEPT ![c] = NoBc]
               /\ CreateTask(b.s)
               /\ last' = [Op("broadcast_done", c, b.s) EXCEPT !.bc = b1,
                               !.store = save_transcript(saved)]
          ELSE /\ handler' = [handler EXCEPT ![c] = b1]
               /\ last' = Op("step", c, b.s)
               /\ saved
               /\ tasks' = tasks
       /\ UNCHANGED <<manager, pc, kind, key, calls, recv, forwarded, utter,
                      triggers, lagged>>

\* ----------------------------------------------------------- generate_advice
\* the throttle check with the comparison off by one
ShouldTrigger_strict(current_count, last_count) ==
    ~(current_count - last_count <= AdviceThreshold)

\* a check that passes as soon as one entry is new
ShouldTrigger_any(current_count, last_count) == current_count - last_count >= 1

\* the throttle check of generate_advice: does this call go on to generate?
ShouldTrigger(current_count, last_count) ==
    ~(current_count - last_count < AdviceThreshold)

\* A created task runs: the throttle check; when it passes, the watermark
\* update, the context, the profile lookup (get_subordinate may raise, which is
\* printed) and the prompt, up to await generate_content_async
AdviceCheck(t, fetched) ==
    LET s == tasks[t].s
        current_count == get_transcript_count(manager, s)
        last_count == get_last_advice_count(manager, s)
        context == get_recent_context(manager, s, ContextLimit)
        sub_id == get_subordinate_id(manager, s)
    IN /\ t \in DOMAIN tasks
       /\ tasks[t].stage = "check"
       /\ IF ShouldTrigger(current_count, last_count)
          THEN /\ manager' = update_last_advice_count(manager, s, current_count)
               /\ triggers' = [triggers EXCEPT ![s] = @ + 1]
               /\ tasks' = IF context = <<>> THEN Del(tasks, t)
                           ELSE [tasks EXCEPT ![t].stage = "generating"]
               /\ IF context # <<>> /\ sub_id # None
                  THEN last' = [Op("advice_check", 0, s) EXCEPT !.trig = TRUE,
                                   !.store = get_subordinate(fetched)]
                  ELSE /\ fetched
                       /\ last' = [Op("advice_check", 0, s) EXCEPT !.trig = TRUE]
          ELSE /\ fetched
               /\ tasks' = Del(tasks, t)
               /\ last' = Op("advice_check", 0, s)
               /\ UNCHANGED <<manager, triggers>>
       /\ UNCHANGED <<pc, kind, key, calls, recv, forwarded, utter, handler,
                      lagged, sent>>

\* generate_content_async returned (ok) or raised (printed): on return the
\* advice broadcast starts; with nobody to send to, save_advice and the end
AdviceGenerated(t, ok, saved) ==
    LET s == tasks[t].s
        b == broadcast(manager, AdviceMsg(get_last_advice_count(manager, s)), s)
    IN /\ t \in DOMAIN tasks
       /\ tasks[t].stage = "generating"
       /\ IF ok /\ b.cur # 0
          THEN /\ tasks' = [tasks EXCEPT ![t].stage = "broadcast", ![t].bc = b]
               /\ last' = Op("step", 0, s)
               /\ saved
          ELSE /\ tasks' = Del(tasks, t)
               /\ ~ok => saved
               /\ last' = [Op(IF ok THEN "advice_done" ELSE "advice_failed", 0, s)
                             EXCEPT !.bc = b,
                                    !.store = IF ok THEN save_advice(saved) ELSE NoCall]
       /\ UNCHANGED <<manager, pc, kind, key, calls, recv, forwarded, utter,
                      handler, triggers, lagged, sent>>

\* send_json of the advice broadcast returned (ok) or raised
AdviceSend(t, ok, saved) ==
    LET b == tasks[t].bc
        b1 == broadcast_next(manager, b, ok)
    IN /\ t \in DOMAIN tasks
       /\ tasks[t].stage = "broadcast"
       /\ ok => pc[b.cur] # "done"
       /\ sent' = IF ok THEN [sent EXCEPT ![b.cur] = Deliver(@, b.msg)] ELSE sent
       /\ IF b1.cur = 0
          THEN /\ tasks' = Del(tasks, t)
               /\ last' = [Op("advice_done", 0, b.s) EXCEPT !.bc = b1,
                               !.store = save_advice(saved)]
          ELSE /\ tasks' = [tasks EXCEPT ![t].bc = b1]
               /\ saved
               /\ last' = Op("step", 0, b.s)
       /\ UNCHANGED <<manager, pc, kind, key, calls, recv, forwarded, utter,
                      handler, triggers, lagged>>

\* ------------------------------------------------------------ specification
Modes == {"mic", "viewer"}
\* the session keys are interchangeable: connection 1 names the first of them
KeysOf(c) == IF c = 1 THEN {"s1"} ELSE Keys
Subordinates == Profiles \cup {None}

\* The endpoints with every outcome of their awaits; the store calls of
\* on_message return (they fail in NextAdvice), and the frame loop ends by an
\* exception of receive or of send: its text payloads, which change nothing,
\* and the disconnect message, which ends it as the exceptions do, are left
\* to NextFrames.
Next ==
    \/ \E c \in Conns : \E s \in KeysOf(c), token \in Tokens : ClientReject(c, s, token)
    \/ \E c \in Conns : \E s \in KeysOf(c), mode \in Modes, p \in Subordinates,
          created \in BOOLEAN, token \in Tokens :
          ClientConnect(c, s, mode, p, created, token)
    \/ \E c \in Conns, ok \in BOOLEAN : SendId(c, ok)
    \/ \E c \in Conns, what \in {"text", "WebSocketDisconnect", "error"} :
          ViewerReceive(c, what)
    \/ \E c \in Conns : CloseReturn(c)
    \/ \E c \in Conns : \E s \in KeysOf(c) : BotReject(c, s)
    \/ \E c \in Conns : \E s \in KeysOf(c), p \in Subordinates : BotOpen(c, s, p)
    \/ \E c \in Conns, outcome \in {"ok", "false", "raise"} : StartResult(c, outcome)
    \/ \E c \in Conns, what \in {"bytes", "WebSocketDisconnect", "error"} :
          /\ what = "bytes" => Sum(recv, Conns) < MaxFrames
          /\ Receive(c, what)
    \/ \E c \in Conns, ok \in BOOLEAN : SendResult(c, ok)
    \/ \E c \in Conns : FinishReturn(c)
    \/ \E c \in Conns, sentence \in Texts, words \in Words :
          /\ utter < MaxUtter
          /\ sentence = "" => words = <<>>     \* no text, no words
          /\ utter' = utter + 1
          /\ Utterance(c, sentence, words, TRUE)
    \/ \E c \in Conns, ok \in BOOLEAN : HandlerSend(c, ok, TRUE)
    \/ \E t \in DOMAIN tasks, fetched \in BOOLEAN : AdviceCheck(t, fetched)

Spec == Init /\ [][Next]_vars


\* The throttle scenario: one session key, every utterance the same non-empty
\* sentence without words, every send to an open connection succeeding, and
\* up to MaxAppends entries in the buffer, so that the threshold is crossed
\* twice; every store call and every step of the advice pipeline may fail.
NextAdvice ==
    \/ \E p \in Subordinates : ClientConnect(1, "s1", "mic", p, TRUE, "valid")
    \/ \E c \in Conns \ {1} : ClientConnect(c, "s1", "viewer", None, TRUE, "valid")
    \/ \E c \in Conns : SendId(c, TRUE)
    \/ \E c \in Conns : ViewerReceive(c, "WebSocketDisconnect")
    \/ BotOpen(1, "s1", None)
    \/ \E c \in Conns : StartResult(c, "ok")
    \/ \E c \in Conns : Receive(c, "disconnect")
    \/ \E c \in Conns : FinishReturn(c)
    \/ \E c \in Conns :
          /\ get_transcript_count(manager, "s1") < MaxAppends
          /\ utter' = utter
          /\ \E saved \in BOOLEAN : Utterance(c, "a", <<>>, saved)
    \/ \E c \in Conns, saved \in BOOLEAN :
          HandlerSend(c, pc[handler[c].cur] # "done", saved)
    \/ \E t \in DOMAIN tasks, fetched \in BOOLEAN : AdviceCheck(t, fetched)
    \/ \E t \in DOMAIN tasks, ok \in BOOLEAN, saved \in BOOLEAN :
          AdviceGenerated(t, ok, saved)
    \/ \E t \in DOMAIN tasks, saved \in BOOLEAN :
          AdviceSend(t, pc[tasks[t].bc.cur] # "done", saved)

SpecAdvice == Init /\ [][NextAdvice]_vars

\* The frame scenario: a microphone client and a dispatched bot relay the same
\* session, each receiving up to MaxRelayFrames binary frames among text
\* payloads, with every way their frame loops end.
NextFrames ==
    \/ ClientConnect(1, "s1", "mic", None, TRUE, "valid")
    \/ SendId(1, TRUE)
    \/ BotOpen(2, "s1", None)
    \/ \E c \in Conns : StartResult(c, "ok")
    \/ \E c \in Conns,
          what \in {"bytes", "text", "disconnect", "WebSocketDisconnect", "error"} :
          /\ what = "bytes" => recv[c] < MaxRelayFrames
          /\ Receive(c, what)
    \/ \E c \in Conns, ok \in BOOLEAN : SendResult(c, ok)
    \/ \E c \in Conns : FinishReturn(c)

SpecFrames == Init /\ [][NextFrames]_vars


\* =================================================================== claims
Count(s) == get_transcript_count(manager, s)
Watermark(s) == get_last_advice_count(manager, s)
Observedp(s) == Has(manager.active_connections, s)
Occurrences(l, x) == Cardinality({i \in 1..Len(l) : l[i] = x})
Position(l, x) == CHOOSE i \in 1..Len(l) : l[i] = x

\* C1 as stated: once every advice check dispatched for a session that has
\* observers has run, the number of checks that triggered is floor(N / 10),
\* whatever the order of checks and appends was.
C1_TriggersEqualFloor ==
    \A s \in Keys :
        Observedp(s) /\ Unchecked(s) = 0
            => triggers[s] = Count(s) \div AdviceThreshold

\* C1 amended: for a session that has observers, the number of checks that
\* triggered is at most floor(N / 10) under every scheduling, and it is exactly
\* floor(N / 10) when every check ran before the next utterance was appended.
C1_TriggersAtMostFloor ==
    \A s \in Keys :
        Observedp(s) =>
            /\ triggers[s] * AdviceThreshold <= Count(s)
            /\ (~lagged[s] /\ Unchecked(s) = 0
                    => triggers[s] = Count(s) \div AdviceThreshold)

\* twenty appends, each checked before the next: two triggers
C1_Witness ==
    /\ Observedp("s1")
    /\ Count("s1") = 2 * AdviceThreshold
    /\ ~lagged["s1"]
    /\ Unchecked("s1") = 0
    /\ triggers["s1"] = 2

\* C2: an advice check triggers exactly when count - watermark >= 10; a check
\* that triggers sets the watermark to the count it read and changes nothing
\* else of the registry, a check that does not trigger changes nothing; so the
\* watermark has advanced by at least 10 for every trigger, and two tasks
\* never trigger on the same batch of fewer than 10 entries.
C2_AtomicThrottle ==
    /\ last.op = "advice_check" =>
          LET pre == last.pre
              now == Snap(manager, last.s)
          IN /\ last.trig <=> (Len(pre.tr) - pre.wm >= AdviceThreshold)
             /\ last.trig => now = [pre EXCEPT !.has_wm = TRUE, !.wm = Len(pre.tr)]
             /\ ~last.trig => now = pre
    /\ \A s \in Keys : Watermark(s) >= AdviceThreshold * triggers[s]

\* a check has just triggered while another task of the session waits to run
C2_Witness ==
    /\ last.op = "advice_check"
    /\ last.trig
    /\ \E t \in DOMAIN tasks : tasks[t].s = last.s /\ tasks[t].stage = "check"

\* C3: for every session key, a transcript buffer exists iff an observer set
\* exists, and a key without observers has no buffer, watermark or metadata.
C3_DefinedTogether ==
    \A s \in Keys :
        /\ Has(manager.transcripts, s) <=> Has(manager.active_connections, s)
        /\ ~Has(manager.active_connections, s) =>
              /\ ~Has(manager.transcripts, s)
              /\ ~Has(manager.last_advice_transcript_count, s)
              /\ ~Has(manager.session_metadata, s)

\* C4: right after a disconnect that removed the last observer of a key,
\* get_recent_context is empty for every limit, get_subordinate_id is None and
\* the key has neither a watermark nor an observer list.
C4_LastLeaveReclaims ==
    last.op = "leave" /\ last.pre.has_ac /\ last.pre.ac = <<last.c>> =>
        /\ \A limit \in 0..ContextLimit :
              get_recent_context(manager, last.s, limit) = <<>>
        /\ get_subordinate_id(manager, last.s) = None
        /\ ~Has(manager.last_advice_transcript_count, last.s)
        /\ ~Has(manager.active_connections, last.s)

\* the last observer has just left a session that had entries, a profile and
\* an advanced watermark
C4_Witness ==
    /\ last.op = "leave"
    /\ last.pre.ac = <<last.c>>
    /\ last.pre.tr # <<>>
    /\ last.pre.meta # None
    /\ last.pre.wm > 0

\* C5: right after a connect that made the connection the first observer of a
\* key, the key's buffer is empty and its watermark is 0, whatever was there
\* before; after a connect to a key that had observers, buffer and watermark
\* are what they were.
C5_FirstJoinFresh ==
    last.op = "join" =>
        LET s == last.s
            pre == last.pre
        IN /\ Has(manager.transcripts, s)
           /\ Has(manager.last_advice_transcript_count, s)
           /\ IF ~pre.has_ac
              THEN manager.transcripts[s] = <<>>
                   /\ manager.last_advice_transcript_count[s] = 0
              ELSE pre.has_tr /\ manager.transcripts[s] = pre.tr
                   /\ pre.has_wm
                   /\ manager.last_advice_transcript_count[s] = pre.wm

\* a first observer has just joined a key that held entries and a watermark
\* from a relay nobody was observing
C5_Witness ==
    /\ last.op = "join"
    /\ ~last.pre.has_ac
    /\ last.pre.tr # <<>>
    /\ last.pre.wm > 0

\* C6: add_transcript for a key the registry does not know (no observer list)
\* leaves every dictionary as it was.
C6_AppendUnknownIsNoop ==
    last.op = "utterance" /\ ~last.pre.has_ac => Snap(manager, last.s) = last.pre

\* C7: for every relay whose frame loop has ended and whose endpoint has
\* returned, finish and leave were each called exactly once, finish first.
C7_FinishThenLeave ==
    \A c \in Conns :
        pc[c] = "done" /\ kind[c] \in {"mic", "bot"} /\ InList(calls[c], "finish") =>
            /\ Occurrences(calls[c], "finish") = 1
            /\ Occurrences(calls[c], "leave") = 1
            /\ Position(calls[c], "finish") < Position(calls[c], "leave")

\* C8: for every bridge process_audio created, finish is called exactly once
\* by the time process_audio has returned, and never twice.
C8_FinishExactlyOnce ==
    \A c \in Conns :
        /\ Occurrences(calls[c], "finish") <= 1
        /\ pc[c] = "done" /\ InList(calls[c], "start") =>
              Occurrences(calls[c], "finish") = 1

\* the transcript notifications in a log carry increasing buffer positions
InOrder(log) ==
    \A i, j \in 1..Len(log) :
        i < j /\ log[i].type = "transcript" /\ log[j].type = "transcript"
            => log[i].n < log[j].n

\* C9: a transcript broadcast that has completed has called send_json on every
\* observer that was registered from the append to the completion, and every
\* connection is sent the transcript notifications in recognition order.
C9_EveryStayingObserverInOrder ==
    /\ last.op \in {"utterance", "broadcast_done"} =>
          last.bc.stayed \subseteq last.bc.tried
    /\ \A c \in Conns : InOrder(sent[c])

\* C10: a broadcast called with observers A and B in which the send to A
\* raised has also called send_json on B, in either order of A and B.
C10_RaiseDoesNotStopDelivery ==
    last.op \in {"utterance", "broadcast_done", "advice_done"} =>
        \A a, b \in Conns :
            a # b /\ last.bc.list0 \in {<<a, b>>, <<b, a>>} /\ a \in last.bc.raised
                => b \in last.bc.tried

\* C11: in every step that starts and ends with observers registered for a
\* key, the key's buffer keeps every entry it had, in place and unchanged, and
\* grows by at most one entry at its end; it grows exactly when a non-empty
\* utterance of that key was recognized in the step, and the new entry carries
\* the utterance's text and the speaker of its first word, 0 without words.
C11_AppendOnly ==
    [][\A s \in Keys :
          Has(manager.active_connections, s) /\ Has(manager'.active_connections, s) =>
              LET old == manager.transcripts[s]
                  new == manager'.transcripts[s]
                  recognized == last'.op = "utterance" /\ last'.s = s
              IN /\ Len(new) >= Len(old)
                 /\ SubSeq(new, 1, Len(old)) = old
                 /\ IF recognized
                    THEN new = Append(old,
                              [speaker |-> IF last'.event.words = <<>> THEN 0
                                           ELSE Head(last'.event.words),
                               text |-> last'.event.sentence])
                    ELSE new = old]_vars

\* an utterance with word-level speakers has just been appended behind an
\* earlier entry of an observed session
C11_Witness ==
    /\ last.op = "utterance"
    /\ last.pre.has_ac
    /\ Len(last.pre.tr) = 1
    /\ last.event.words = <<1, 0>>
    /\ Len(manager.transcripts[last.s]) = 2

\* C12: a step in which an utterance event with empty text is delivered changes
\* no buffer and nothing else of the registry, starts no broadcast, delivers
\* nothing, calls no store function and creates no advice task; and no buffer
\* ever holds an entry with empty text.
C12_EmptyDiscarded ==
    /\ [][last'.op \in {"utterance", "empty_utterance"}
            /\ last'.event.sentence = "" =>
               /\ UNCHANGED <<manager, handler, tasks, sent, triggers>>
               /\ last'.bc = NoBc
               /\ last'.store = NoCall]_vars
    /\ [](\A s \in DOMAIN manager.transcripts :
             \A i \in 1..Len(manager.transcripts[s]) :
                manager.transcripts[s][i].text # "")

\* an utterance event without text has just arrived for a session that has
\* observers and entries
C12_Witness ==
    /\ last.op = "empty_utterance"
    /\ last.event.sentence = ""
    /\ last.pre.has_ac
    /\ last.pre.tr # <<>>

\* C13: the step in which dg_connection.start fails for a microphone client
\* ends that connection's relay with no frame received or forwarded and
\* exactly join, start, leave called for it; it creates no advice task,
\* delivers nothing and leaves the buffers and watermarks of the sessions that
\* keep observers as they were; the connection is no longer registered, and
\* when it was the only observer of its key, no dictionary holds the key.
C13_StartFailureCleansUp ==
    [][\A c \in Conns :
          pc[c] = "starting" /\ pc'[c] = "done" /\ kind[c] = "mic" =>
              LET s == key[c]
                  m == manager'
              IN /\ recv'[c] = 0
                 /\ forwarded'[c] = <<>>
                 /\ calls'[c] = <<"join", "start", "leave">>
                 /\ DOMAIN tasks' = DOMAIN tasks
                 /\ sent' = sent
                 /\ ~(Has(m.active_connections, s) /\ InList(m.active_connections[s], c))
                 /\ IF manager.active_connections[s] = <<c>>
                    THEN /\ ~Has(m.active_connections, s)
                         /\ ~Has(m.transcripts, s)
                         /\ ~Has(m.session_metadata, s)
                         /\ ~Has(m.last_advice_transcript_count, s)
                    ELSE Snap(m, s) = [Snap(manager, s) EXCEPT !.ac = Remove(@, c)]
                 /\ \A other \in Keys \ {s} : Snap(m, other) = Snap(manager, other)]_vars

\* the bridge of a microphone client that was the only observer of a session
\* with a profile has just failed to start
C13_Witness ==
    /\ last.op = "start_failed"
    /\ kind[last.c] = "mic"
    /\ last.pre.ac = <<last.c>>
    /\ last.pre.meta # None
    /\ ~Has(manager.active_connections, last.s)

\* C14: the step of a client connection whose token verify_user does not
\* accept changes nothing of the registry, calls no store function, makes no
\* registry or bridge call for the connection and ends its endpoint; and a
\* connection with such a token is never registered under any key.
C14_RejectedBeforeState ==
    /\ [][last'.op \in {"join", "reject"} /\ last'.token = "invalid" =>
               /\ manager' = manager
               /\ last'.store = NoCall
               /\ calls'[last'.c] = <<>>
               /\ pc'[last'.c] = "done"
               /\ UNCHANGED <<handler, tasks, sent>>]_vars
    /\ [](\A c \in Conns :
             kind[c] = "rejected" =>
                 /\ calls[c] = <<>>
                 /\ \A s \in DOMAIN manager.active_connections :
                        ~InList(manager.active_connections[s], c))

\* a connection with an unknown token has just been turned away from a session
\* that has an observer and entries
C14_Witness ==
    /\ last.op = "reject"
    /\ last.token = "invalid"
    /\ last.pre.has_ac
    /\ last.pre.tr # <<>>

\* a step in which a step of the advice pipeline failed: generate_content_async
\* raised, save_advice raised or get_subordinate raised
AdviceFailure(op) ==
    \/ op.op = "advice_failed"
    \/ /\ op.op \in {"advice_check", "advice_done"}
       /\ op.store.call \in {"get_subordinate", "save_advice"}
       /\ ~op.store.returned

\* C15: a step in which a step of the advice pipeline fails leaves every
\* endpoint coroutine where it was (no frame loop ends, no finish or leave is
\* called) and every observer list as it was; a failed generation or a failed
\* save_advice ends its task, changes nothing of the registry and creates no
\* task, a failed profile fetch lets its task go on with the watermark the
\* check has set; and a check triggers only when at least 10 entries are newer
\* than the watermark, which it then sets to the count.
C15_AdviceFailureIsolated ==
    /\ [][AdviceFailure(last') =>
               /\ pc' = pc
               /\ calls' = calls
               /\ manager'.active_connections = manager.active_connections
               /\ \A t \in DOMAIN tasks' : t \in DOMAIN tasks
               /\ IF last'.op = "advice_check"
                  THEN /\ DOMAIN tasks' = DOMAIN tasks
                       /\ get_last_advice_count(manager', last'.s)
                              = get_transcript_count(manager, last'.s)
                  ELSE /\ manager' = manager
                       /\ Cardinality(DOMAIN tasks') = Cardinality(DOMAIN tasks) - 1
                       /\ \A t \in DOMAIN tasks' : tasks'[t] = tasks[t]]_vars
    /\ [][last'.op = "advice_check" /\ last'.trig =>
               /\ get_transcript_count(manager, last'.s)
                      - get_last_advice_count(manager, last'.s) >= AdviceThreshold
               /\ get_last_advice_count(manager', last'.s)
                      = get_transcript_count(manager, last'.s)]_vars

\* a generation has just failed for a session whose relay is in its frame
\* loop, with observers, and with entries newer than the watermark
C15_Witness ==
    /\ last.op = "advice_failed"
    /\ pc[1] = "loop"
    /\ Observedp(last.s)
    /\ Watermark(last.s) = AdviceThreshold
    /\ Count(last.s) > AdviceThreshold

\* C16: a step in which save_transcript raises has the transcript broadcast
\* behind it (complete, and sent to every observer of the call when none left
\* during it), keeps the entry in the buffer, creates the advice task of the
\* utterance and leaves every endpoint coroutine where it was; a step in which
\* save_advice raises has the advice broadcast behind it in the same way and
\* changes nothing of the registry or of an endpoint coroutine.
C16_StoreFailureOffLivePath ==
    [][last'.store.call \in {"save_transcript", "save_advice"}
           /\ ~last'.store.returned =>
              LET s == last'.s
                  b == last'.bc
              IN /\ pc' = pc
                 /\ calls' = calls
                 /\ b.cur = 0
                 /\ b.s = s
                 /\ b.stayed = Elems(b.list0) => Elems(b.list0) \subseteq b.tried
                 /\ IF last'.store.call = "save_advice"
                    THEN /\ b.msg.type = "advice"
                         /\ manager' = manager
                    ELSE /\ b.msg.type = "transcript"
                         /\ b.msg.text = "a"
                         /\ last'.op = "broadcast_done" => manager' = manager
                         /\ last'.op = "utterance" =>
                               /\ Has(manager'.transcripts, s)
                               /\ manager'.transcripts[s]
                                     = Append(Snap(manager, s).tr,
                                              [speaker |-> b.msg.speaker,
                                               text |-> b.msg.text])
                         /\ \E t \in DOMAIN tasks' \ DOMAIN tasks :
                               /\ tasks'[t].s = s
                               /\ tasks'[t].stage = "check"
                         /\ \A t \in DOMAIN tasks : tasks'[t] = tasks[t]]_vars

\* save_transcript has just raised for an utterance that was sent to both
\* observers of its session
C16_Witness ==
    /\ last.op = "broadcast_done"
    /\ last.store = save_transcript(FALSE)
    /\ Cardinality(last.bc.tried) = 2
    /\ last.pre.tr # <<>>

\* the last n entries of l, oldest first
LastEntries(l, n) == SubSeq(l, Len(l) - n + 1, Len(l))
Min(a, b) == IF a < b THEN a ELSE b

\* C17: for every key and every limit >= 0, get_recent_context returns the
\* last min(limit, length) entries of the key's buffer, oldest first, and the
\* empty list for a key without a buffer.
C17_RecentContext ==
    \A s \in Keys, limit \in 0..MaxLimit :
        LET l == IF Has(manager.transcripts, s) THEN manager.transcripts[s] ELSE <<>>
        IN get_recent_context(manager, s, limit) = LastEntries(l, Min(limit, Len(l)))

\* C18: for every connection and every key, disconnect applied to the
\* registry a second time changes nothing more, and disconnect for a key the
\* registry does not know, or for a connection that is not in the key's
\* observer list, leaves the registry as it is.
C18_LeaveIdempotent ==
    \A c \in Conns, s \in Keys :
        LET once == disconnect(manager, c, s)
        IN /\ disconnect(once, c, s) = once
           /\ ~Has(manager.active_connections, s) => once = manager
           /\ Has(manager.active_connections, s)
                 /\ ~InList(manager.active_connections[s], c) => once = manager

\* a connection has just left a session that keeps another observer, entries
\* and a profile, while the other key is unknown to the registry
C18_Witness ==
    /\ last.op = "leave"
    /\ Has(manager.active_connections, last.s)
    /\ ~InList(manager.active_connections[last.s], last.c)
    /\ manager.transcripts[last.s] # <<>>
    /\ get_subordinate_id(manager, last.s) # None
    /\ \E s \in Keys : ~Has(manager.active_connections, s)

\* a relay of key s other than connection c is past its start and not yet
\* at its finish
RelayRunning(s, c) ==
    \E r \in Conns \ {c} :
        key[r] = s /\ kind[r] \in {"mic", "bot"} /\ pc[r] \in {"loop", "sending"}

\* C19: right after the disconnect of a viewer from a session that has a
\* running relay, the session's observer list is the former one without the
\* viewer and its buffer, watermark and profile are what they were.
C19_ViewerLeaveKeepsRelayState ==
    last.op = "leave" /\ kind[last.c] = "viewer" /\ RelayRunning(last.s, last.c) =>
        Snap(manager, last.s) = [last.pre EXCEPT !.ac = Remove(@, last.c)]

\* C20: a step that completes an advice pipeline for a key that has no
\* observer list delivers nothing, changes nothing of the registry and of the
\* endpoint coroutines, and its broadcast, when it found no list at its call,
\* has called send_json on nobody.
C20_LateAdviceToNobody ==
    [][last'.op = "advice_done" /\ ~Has(manager.active_connections, last'.s) =>
           /\ sent' = sent
           /\ manager' = manager
           /\ pc' = pc
           /\ last'.bc.list0 = <<>> => last'.bc.tried = {}]_vars

\* the advice of a microphone session, triggered while the client was
\* registered, has just been generated and saved after the client left
C20_Witness ==
    /\ last.op = "advice_done"
    /\ kind[1] = "mic"
    /\ ~last.pre.has_ac
    /\ ~last.pre.has_tr
    /\ last.bc.list0 = <<>>
    /\ last.store = save_advice(TRUE)
    /\ \A s \in Keys : Snap(manager, s) = Snap(ConnectionManager, s)

\* the frames 1 .. n in the order of their receipt
Frames(n) == [i \in 1..n |-> i]

\* C21: what every relay has handed to the bridge is, at every moment, the
\* binary frames it has received, each once, as received and in the order of
\* receipt; a step that receives a text payload forwards nothing and leaves
\* the loop running; a step that receives a disconnect message ends the loop
\* (finish is called); and once finish has been called for a relay, nothing
\* more is forwarded for it.
C21_FramesForwardedInOrder ==
    /\ [](\A c \in Conns : forwarded[c] = Frames(recv[c]))
    /\ [][/\ last'.op = "text" =>
               /\ forwarded' = forwarded
               /\ pc'[last'.c] = "loop"
               /\ calls' = calls
          /\ last'.op = "disconnect" =>
               /\ pc[last'.c] = "loop"
               /\ pc'[last'.c] = "finishing"
               /\ calls'[last'.c] = Append(calls[last'.c], "finish")
          /\ \A c \in Conns :
                InList(calls[c], "finish") => forwarded'[c] = forwarded[c]]_vars

\* a relay that has received and forwarded MaxRelayFrames binary frames has
\* just been ended by a disconnect message
C21_Witness ==
    \E c \in Conns :
        /\ recv[c] = MaxRelayFrames
        /\ forwarded[c] = Frames(MaxRelayFrames)
        /\ InList(calls[c], "finish")
        /\ last.op = "disconnect"
        /\ last.c = c

\* C22: in every reachable state and for every key, the watermark (0 when the
\* key has none) is at least 0 and at most the length of the key's buffer (0
\* when the key has none).
C22_WatermarkWithinBuffer ==
    \A s \in Keys :
        /\ 0 <= get_last_advice_count(manager, s)
        /\ get_last_advice_count(manager, s) <= get_transcript_count(manager, s)

\* a check has just moved the watermark of a session, for the second time, up
\* to the length of its buffer
C22_Witness ==
    /\ last.op = "advice_check"
    /\ last.trig
    /\ last.pre.wm = AdviceThreshold
    /\ Watermark(last.s) = Count(last.s)
    /\ Count(last.s) = 2 * AdviceThreshold

====
